---- MODULE Spec2Model ----
(***************************************************************************)
(* Model of the excel_translator package: ExcelTranslator.translate_file   *)
(* driving OpenAIProvider over an openpyxl workbook, with the on-disk       *)
(* translation cache and the SIGINT handler.                                *)
(*                                                                          *)
(* Strings are sequences of Unicode code points.  A cell value is a record  *)
(* [t |-> "str", v |-> <code points>] or [t |-> "num", v |-> <<>>].         *)
(***************************************************************************)
EXTENDS Integers, Sequences, FiniteSets, TLC

\* ------------------------------------------------------------------------
\* Bounds of the model (not program constants)
\* ------------------------------------------------------------------------
MaxCells == 2
MaxBatchSize == 2
MaxSaveInterval == 2
MaxRetries == 1

\* ------------------------------------------------------------------------
\* Code points used by the source and by the model's inputs
\* ------------------------------------------------------------------------
SP == 32
SLASH == 47
QUOTE == 34
EQ == 61
ZH_NI == 20320
ZH_HAO == 22909

Str(s) == [t |-> "str", v |-> s]
Num == [t |-> "num", v |-> <<>>]

SetMin(S) == CHOOSE x \in S : \A y \in S : x <= y
SetMax(S) == CHOOSE x \in S : \A y \in S : x >= y

\* ------------------------------------------------------------------------
\* Python str helpers
\* ------------------------------------------------------------------------
\* str.isspace() for one code point (the whitespace set str.strip() removes)
IsSpace(c) ==
    \/ c \in 9..13
    \/ c \in 28..32
    \/ c \in {133, 160, 5760, 8232, 8233, 8239, 8287, 12288}
    \/ c \in 8192..8202

\* s.strip()
Strip(s) ==
    LET keep == {i \in 1..Len(s) : ~IsSpace(s[i])}
    IN  IF keep = {} THEN <<>> ELSE SubSeq(s, SetMin(keep), SetMax(keep))

\* s.startswith('=')
StartsWithEq(s) == Len(s) >= 1 /\ s[1] = EQ

\* the character class of chinese_pattern, item by item as Python's re
\* parses it: a \u escape takes exactly four hex digits, so the source text
\* "\u20000-\u2A6DF" is the three items U+2000, the range '0'..U+2A6D and
\* the letter 'F' (and likewise for the other five-digit ranges).
InChinesePattern(c) ==
    \/ c \in 19968..40959      \* U+4E00-U+9FFF
    \/ c \in 13312..19903      \* U+3400-U+4DBF
    \/ c = 8192                \* U+2000
    \/ c \in 48..10861         \* '0'-U+2A6D
    \/ c = 70                  \* 'F'
    \/ c = 10864               \* U+2A70
    \/ c \in 48..11123         \* '0'-U+2B73
    \/ c = 11124               \* U+2B74
    \/ c \in 48..11137         \* '0'-U+2B81
    \/ c = 11138               \* U+2B82
    \/ c \in 48..11498         \* '0'-U+2CEA
    \/ c \in 12032..12255      \* U+2F00-U+2FDF
    \/ c \in 12288..12351      \* U+3000-U+303F

\* a classifier that accepts every str
is_chinese_any_str(val) == val.t = "str"

\* is_chinese(text): isinstance check, then chinese_pattern.search
is_chinese(val) ==
    /\ val.t = "str"
    /\ \E i \in 1..Len(val.v) : InChinesePattern(val.v[i])

\* get_cache_key(text): a digest of the text's code points.  MD5 is stood
\* in for by a 16-bit polynomial digest: deterministic, a function of the
\* text alone, and not the identity.
RECURSIVE Digest(_, _)
Digest(s, h) ==
    IF s = <<>> THEN h
    ELSE Digest(Tail(s), (h * 31 + Head(s)) % 65521)

get_cache_key(s) == Digest(s, 7)

\* string_pattern.findall(formula) for the pattern "([^"]*)": the
\* non-overlapping leftmost matches, each yielding its group
RECURSIVE FindAllFrom(_, _)
FindAllFrom(s, p) ==
    LET opens == {i \in p..Len(s) : s[i] = QUOTE}
    IN  IF opens = {} THEN <<>>
        ELSE LET o == SetMin(opens)
                 closes == {j \in (o+1)..Len(s) : s[j] = QUOTE}
             IN  IF closes = {} THEN <<>>
                 ELSE LET c == SetMin(closes)
                      IN  <<SubSeq(s, o+1, c-1)>> \o FindAllFrom(s, c+1)

findall(s) == FindAllFrom(s, 1)

\* s.replace(old, new) for non-empty old: every non-overlapping occurrence,
\* left to right
RECURSIVE ReplaceFrom(_, _, _, _)
ReplaceFrom(s, p, old, new) ==
    IF p > Len(s) THEN <<>>
    ELSE IF p + Len(old) - 1 <= Len(s) /\ SubSeq(s, p, p + Len(old) - 1) = old
         THEN new \o ReplaceFrom(s, p + Len(old), old, new)
         ELSE <<s[p]>> \o ReplaceFrom(s, p + 1, old, new)

str_replace(s, old, new) == ReplaceFrom(s, 1, old, new)

\* f'"{string}"'
Quoted(s) == <<QUOTE>> \o s \o <<QUOTE>>

\* ------------------------------------------------------------------------
\* Python dict helpers (a dict is a function; its domain are the keys)
\* ------------------------------------------------------------------------
EmptyMap == [x \in {} |-> <<>>]
Put(m, key, val) == [x \in (DOMAIN m) \cup {key} |-> IF x = key THEN val ELSE m[x]]
Range(s) == {s[j] : j \in DOMAIN s}

\* ------------------------------------------------------------------------
\* Inputs: documents, cache files, the remote capability's answers
\* ------------------------------------------------------------------------
\* cell values of the input documents: two source-script texts, a number,
\* a text outside the pattern, and a formula holding the literal "U+4F60"
FormulaNi == <<EQ, QUOTE, ZH_NI, QUOTE>>
\* a formula with source text outside its only literal: =你&"/"
FormulaNoLiteral == <<EQ, ZH_NI, 38>> \o Quoted(<<SLASH>>)
CellValues ==
    {Str(<<ZH_NI>>), Str(<<ZH_HAO>>), Num, Str(<<SLASH>>), Str(FormulaNi),
     Str(FormulaNoLiteral)}

\* a document is its cells in scan order (sheets in declared order, rows,
\* then cells of a row)
Documents == UNION {[1..n -> CellValues] : n \in 1..MaxCells}

\* what the remote model answers for a text when it does translate it
Translit(s) == [j \in 1..Len(s) |-> 65 + (s[j] % 26)]

\* cache files a previous run can have left behind
InitialCaches ==
    {EmptyMap, Put(EmptyMap, get_cache_key(<<ZH_NI>>), Translit(<<ZH_NI>>))}

\* the ways one chat.completions.create call can end: a transport error, or
\* a stream whose joined content is blank, a translation, or the text itself
Outcomes == {"error", "empty", "ok", "echo"}

RemoteContent(text, o) ==
    CASE o = "empty" -> <<SP>>
      [] o = "ok"    -> <<SP>> \o Translit(text) \o <<SP>>
      [] OTHER       -> text

\* the states of the file at the output path
Missing == [state |-> "missing", cells |-> <<>>]
Complete(doc) == [state |-> "complete", cells |-> doc]
Partial == [state |-> "partial", cells |-> <<>>]

\* ------------------------------------------------------------------------
\* State
\* ------------------------------------------------------------------------
VARIABLES
    create_backup_file,                     \* translate_file's argument
    batch_size, max_retries, save_interval, \* ExcelTranslator.__init__
    inputFile, outputFile, cacheFile,       \* the file system
    backupFile,                             \* the file at backup_path
    workbook, cache,                        \* in memory: document, self.cache
    pc, phase, saveRet, lastSave, lastCacheSave, interrupted,
    all_cells, formula_cells,               \* the scan's two lists
    i, fi, batch, w,                        \* loop positions of translate_file
    cells_processed, cells_translated, pbar,
    chinese_strings,
    cells, texts_to_translate, text_cache_map, attempt, translations,
    results, k,                             \* OpenAIProvider.translate_batch
    requests, seen, obtained, tries,        \* history of the remote calls
    hlog,                                   \* what signal_handler has done
    call                                    \* a function called on its own


vars == <<create_backup_file, backupFile,
          batch_size, max_retries, save_interval, inputFile, outputFile,
          cacheFile, workbook, cache, pc, phase, saveRet, lastSave,
          lastCacheSave, interrupted, all_cells, formula_cells, i, fi, batch, w,
          cells_processed, cells_translated, pbar, chinese_strings, cells,
          texts_to_translate, text_cache_map, attempt, translations,
          results, k, requests, seen, obtained, tries, hlog, call>>

\* no function is being called on its own
NoCall == [fn |-> "none", arg |-> <<>>, ret |-> <<>>]

\* load_cache(cache_file) of a readable cache file
load_cache(file) == file

\* the state after ExcelTranslator(provider, cache_dir, batch_size,
\* max_retries, save_interval) and before translate_file
Init ==
    /\ call = NoCall
    /\ create_backup_file \in BOOLEAN
    /\ backupFile = Missing
    /\ batch_size \in 1..MaxBatchSize
    /\ max_retries \in 0..MaxRetries
    /\ save_interval \in 1..MaxSaveInterval
    /\ inputFile \in Documents
    /\ outputFile = Missing
    /\ cacheFile \in InitialCaches
    /\ cache = load_cache(cacheFile)
    /\ workbook = <<>>
    /\ pc = "backup"
    /\ phase = "plain"
    /\ saveRet = "none"
    /\ lastSave = "none"
    /\ lastCacheSave = "none"
    /\ interrupted = FALSE
    /\ all_cells = <<>>
    /\ formula_cells = <<>>
    /\ i = 0
    /\ fi = 1
    /\ batch = <<>>
    /\ w = 1
    /\ cells_processed = 0
    /\ cells_translated = 0
    /\ pbar = 0
    /\ chinese_strings = <<>>
    /\ cells = <<>>
    /\ texts_to_translate = <<>>
    /\ text_cache_map = EmptyMap
    /\ attempt = 0
    /\ translations = EmptyMap
    /\ results = EmptyMap
    /\ k = 1
    /\ requests = EmptyMap
    /\ seen = {}
    /\ obtained = {}
    /\ tries = EmptyMap
    /\ hlog = <<>>

\* ------------------------------------------------------------------------
\* ExcelTranslator.translate_cells_batch and OpenAIProvider, as operators
\* ------------------------------------------------------------------------
\* the guard shared by translate_cells_batch, translate_batch and
\* translate_single: a str, not blank, matching is_chinese
NeedsTranslation(val) ==
    /\ val.t = "str"
    /\ Strip(val.v) # <<>>
    /\ is_chinese(val)

\* a cache lookup that never finds anything
CacheHit_never(c, text) == FALSE

\* "cache_key in self.cache"
CacheHit(c, text) == get_cache_key(text) \in DOMAIN c

\* translate_cells_batch, first loop: the texts appended to
\* texts_to_translate, in cell order, duplicates kept
UncachedTexts(cs, c) ==
    LET todo == SelectSeq(cs, LAMBDA val : NeedsTranslation(val) /\ ~CacheHit(c, val.v))
    IN  [j \in 1..Len(todo) |-> todo[j].v]

\* translate_cells_batch, first loop: text_cache_map, the cached texts
CachedTexts(cs, c) ==
    LET hit == {val.v : val \in {x \in Range(cs) : NeedsTranslation(x) /\ CacheHit(c, x.v)}}
    IN  [t \in hit |-> c[get_cache_key(t)]]

\* OpenAIProvider.translate_batch: the texts it sends on, and the results it
\* starts from (a text it skips maps to itself)
ProviderTexts(texts) == SelectSeq(texts, LAMBDA t : NeedsTranslation(Str(t)))
ProviderSkipped(texts) ==
    [t \in {x \in Range(texts) : ~NeedsTranslation(Str(x))} |-> t]

\* an except clause that returns an empty result instead of the text
translate_single_except_empty(text) == [raised |-> FALSE, value |-> <<>>]

\* OpenAIProvider.translate_single, the except clause: log, return the text
translate_single_except(text) == [raised |-> FALSE, value |-> text]

\* OpenAIProvider.translate_single for one way the remote call can end
translate_single(text, o) ==
    IF ~NeedsTranslation(Str(text)) THEN [raised |-> FALSE, value |-> text]
    ELSE IF o = "error" THEN translate_single_except(text)
    ELSE [raised |-> FALSE, value |-> Strip(RemoteContent(text, o))]

\* translate_cells_batch, "Update cache with new translations": self.cache
\* after the loop over translations.items()
MergedCache(c, res) ==
    LET changed == {t \in DOMAIN res : res[t] # t}
        keys == {get_cache_key(t) : t \in changed}
    IN  [key \in (DOMAIN c) \cup keys |->
            IF key \in keys
            THEN res[CHOOSE t \in changed : get_cache_key(t) = key]
            ELSE c[key]]

\* the same loop: text_cache_map after it
MergedMap(tcm, res) ==
    [t \in (DOMAIN tcm) \cup (DOMAIN res) |->
        IF t \in DOMAIN res THEN res[t] ELSE tcm[t]]

\* translate_cells_batch, the last except branch: the original texts
FallbackMap(tcm, texts) ==
    [t \in (DOMAIN tcm) \cup Range(texts) |->
        IF t \in Range(texts) THEN t ELSE tcm[t]]

\* save_cache(cache, cache_file): the file afterwards; a failed write is
\* logged and swallowed
save_cache(c, file, ok) == IF ok THEN c ELSE file

\* translate_file, "Replace strings in formula"
RECURSIVE rewrite_formula(_, _, _)
rewrite_formula(formula, strs, tr) ==
    IF strs = <<>> THEN formula
    ELSE LET s == Head(strs)
             next == IF s \in DOMAIN tr /\ tr[s] # s
                     THEN str_replace(formula, Quoted(s), Quoted(tr[s]))
                     ELSE formula
         IN  rewrite_formula(next, Tail(strs), tr)

\* the scan's test of one cell value
IsCandidate(val) ==
    /\ val.t = "str"
    /\ val.v # <<>>
    /\ Strip(val.v) # <<>>
    /\ is_chinese(val)

\* a handler whose save_cache sits in the try block, after workbook.save
signal_handler_no_finally(saved) == IF saved THEN "h_cache" ELSE "exited"

\* signal_handler: where it goes after workbook.save, saved or not (the
\* cache is saved in the finally clause)
signal_handler_finally(saved) == "h_cache"

\* where translate_cells_batch returns to
ReturnSite == IF phase = "plain" THEN "writeback" ELSE "formula_replace"

Bump(m, key) == Put(m, key, IF key \in DOMAIN m THEN m[key] + 1 ELSE 1)
Count(m, key) == IF key \in DOMAIN m THEN m[key] ELSE 0

\* ------------------------------------------------------------------------
\* translate_file
\* ------------------------------------------------------------------------
\* create_backup(input_file): shutil.copy2 to backup_path; a failure is
\* logged and the run proceeds without backup
CreateBackup ==
    /\ pc = "backup"
    /\ IF create_backup_file
       THEN \/ backupFile' = Complete(inputFile)
            \/ backupFile' \in {backupFile, Partial}
       ELSE backupFile' = backupFile
    /\ pc' = "copy"
    /\ UNCHANGED <<call, create_backup_file, batch_size, max_retries,
                    save_interval, inputFile, outputFile,
                    cacheFile, workbook, cache, phase, saveRet, lastSave,
                    lastCacheSave, interrupted, all_cells, formula_cells, i,
                    fi, batch, w, cells_processed, cells_translated, pbar,
                    chinese_strings, cells, texts_to_translate,
                    text_cache_map, attempt, translations, results, k,
                    requests, seen, obtained, tries, hlog>>

\* a failed copy after which the run goes on to load the document
copy_failed_proceed == "load"

\* "Create initial copy", the except clause: log the error and return
copy_failed_return == "copy_failed"

\* "Create initial copy": shutil.copy2(input_file, output_file).  It can
\* raise before it has written anything, while it writes the destination,
\* or after the content is written (while it copies the metadata)
InitialCopy ==
    /\ pc = "copy"
    /\ \/ /\ outputFile' = Complete(inputFile)
          /\ pc' = "load"
       \/ /\ outputFile' \in {outputFile, Partial, Complete(inputFile)}
          /\ pc' = copy_failed_return
    /\ UNCHANGED <<call, create_backup_file, backupFile, batch_size,
                    max_retries,
                    save_interval, inputFile,
                    cacheFile, workbook, cache, phase, saveRet, lastSave,
                    lastCacheSave, interrupted, all_cells, formula_cells, i,
                    fi, batch, w, cells_processed, cells_translated, pbar,
                    chinese_strings, cells, texts_to_translate,
                    text_cache_map, attempt, translations, results, k,
                    requests, seen, obtained, tries, hlog>>

\* "Load workbook", then setup_signal_handler
LoadWorkbook ==
    /\ pc = "load"
    /\ \/ /\ workbook' = outputFile.cells
          /\ pc' = "scan"
       \/ /\ workbook' = workbook
          /\ pc' = "aborted"
    /\ UNCHANGED <<call, create_backup_file, backupFile, batch_size,
                    max_retries,
                    save_interval, inputFile,
                    outputFile, cacheFile, cache, phase, saveRet, lastSave,
                    lastCacheSave, interrupted, all_cells, formula_cells, i,
                    fi, batch, w, cells_processed, cells_translated, pbar,
                    chinese_strings, cells, texts_to_translate,
                    text_cache_map, attempt, translations, results, k,
                    requests, seen, obtained, tries, hlog>>

\* a run that starts the formula loop right after the scan
after_scan_formulas == "formula_loop"

\* what follows the scan: "Process regular cells in batches"
after_scan == "plain_loop"

\* "Collect cells that need translation"
ScanCells ==
    /\ pc = "scan"
    /\ LET idx == [j \in 1..Len(workbook) |-> j]
       IN  /\ all_cells' = SelectSeq(idx, LAMBDA j :
                   IsCandidate(workbook[j]) /\ ~StartsWithEq(workbook[j].v))
           /\ formula_cells' = SelectSeq(idx, LAMBDA j :
                   IsCandidate(workbook[j]) /\ StartsWithEq(workbook[j].v))
    /\ cells_processed' = 0
    /\ cells_translated' = 0
    /\ pbar' = 0
    /\ i' = 0
    /\ pc' = after_scan
    /\ UNCHANGED <<call, create_backup_file, backupFile, batch_size,
                    max_retries,
                    save_interval, inputFile,
                    outputFile, cacheFile, workbook, cache, phase, saveRet,
                    lastSave, lastCacheSave, interrupted, fi, batch, w,
                    chinese_strings, cells, texts_to_translate,
                    text_cache_map, attempt, translations, results, k,
                    requests, seen, obtained, tries, hlog>>

\* "Process regular cells in batches": the head of one iteration, up to the
\* periodic save
PlainLoopHead ==
    /\ pc = "plain_loop"
    /\ IF i < Len(all_cells)
       THEN LET last == IF i + batch_size < Len(all_cells)
                        THEN i + batch_size ELSE Len(all_cells)
                b == SubSeq(all_cells, i + 1, last)
                processed == cells_processed + Len(b)
            IN  /\ batch' = b
                /\ cells' = [j \in 1..Len(b) |-> workbook[b[j]]]
                /\ cells_processed' = processed
                /\ phase' = "plain"
                /\ w' = 1
                /\ fi' = fi
                /\ IF processed % save_interval = 0
                   THEN pc' = "save" /\ saveRet' = "translate"
                   ELSE pc' = "translate" /\ saveRet' = saveRet
       ELSE /\ pc' = "formula_loop"
            /\ fi' = 1
            /\ UNCHANGED <<batch, cells, cells_processed, phase, w, saveRet>>
    /\ UNCHANGED <<call, create_backup_file, backupFile, batch_size,
                    max_retries,
                    save_interval, inputFile,
                    outputFile, cacheFile, workbook, cache, lastSave,
                    lastCacheSave, interrupted, all_cells, formula_cells, i,
                    cells_translated, pbar, chinese_strings,
                    texts_to_translate, text_cache_map, attempt,
                    translations, results, k, requests, seen, obtained,
                    tries, hlog>>

\* workbook.save(output_file): the file is opened for writing (and is no
\* document until the write ends), unless opening it raises
SaveOpen ==
    /\ pc = "save"
    /\ \/ /\ outputFile' = Partial
          /\ pc' = "save_writing"
          /\ lastSave' = lastSave
          /\ hlog' = hlog
       \/ /\ outputFile' = outputFile
          /\ lastSave' = "failed"
          /\ pc' = IF interrupted THEN signal_handler_finally(FALSE) ELSE saveRet
          /\ hlog' = IF interrupted THEN Append(hlog, "save_failed") ELSE hlog
    /\ UNCHANGED <<call, create_backup_file, backupFile, batch_size,
                    max_retries,
                    save_interval, inputFile,
                    cacheFile, workbook, cache, phase, saveRet,
                    lastCacheSave, interrupted, all_cells, formula_cells, i,
                    fi, batch, w, cells_processed, cells_translated, pbar,
                    chinese_strings, cells, texts_to_translate,
                    text_cache_map, attempt, translations, results, k,
                    requests, seen, obtained, tries>>

\* workbook.save(output_file): the write ends, or raises half way; the
\* callers log the exception and go on
SaveWrite ==
    /\ pc = "save_writing"
    /\ \/ /\ outputFile' = Complete(workbook)
          /\ lastSave' = "ok"
          /\ pc' = IF interrupted THEN signal_handler_finally(TRUE) ELSE saveRet
          /\ hlog' = IF interrupted THEN Append(hlog, "save_ok") ELSE hlog
       \/ /\ outputFile' = outputFile
          /\ lastSave' = "failed"
          /\ pc' = IF interrupted THEN signal_handler_finally(FALSE) ELSE saveRet
          /\ hlog' = IF interrupted THEN Append(hlog, "save_failed") ELSE hlog
    /\ UNCHANGED <<call, create_backup_file, backupFile, batch_size,
                    max_retries,
                    save_interval, inputFile,
                    cacheFile, workbook, cache, phase, saveRet,
                    lastCacheSave, interrupted, all_cells, formula_cells, i,
                    fi, batch, w, cells_processed, cells_translated, pbar,
                    chinese_strings, cells, texts_to_translate,
                    text_cache_map, attempt, translations, results, k,
                    requests, seen, obtained, tries>>

\* translate_cells_batch up to "If all texts are cached", and the start of
\* OpenAIProvider.translate_batch
EnterTranslate ==
    /\ pc = "translate"
    /\ LET todo == UncachedTexts(cells, cache)
           hits == CachedTexts(cells, cache)
       IN  /\ texts_to_translate' = todo
           /\ text_cache_map' = hits
           /\ tries' = EmptyMap
           /\ attempt' = 0
           /\ k' = 1
           /\ results' = ProviderSkipped(todo)
           /\ IF todo = <<>>
              THEN translations' = hits /\ pc' = ReturnSite
              ELSE /\ translations' = translations
                   /\ pc' = IF ProviderTexts(todo) = <<>> THEN "merge" ELSE "provider"
    /\ UNCHANGED <<call, create_backup_file, backupFile, batch_size,
                    max_retries,
                    save_interval, inputFile,
                    outputFile, cacheFile, workbook, cache, phase, saveRet,
                    lastSave, lastCacheSave, interrupted, all_cells,
                    formula_cells, i, fi, batch, w, cells_processed,
                    cells_translated, pbar, chinese_strings, cells, requests,
                    seen, obtained, hlog>>

\* one translate_single call of translate_batch's loop; when it raises, the
\* except clause of translate_cells_batch
RemoteCall ==
    /\ pc = "provider"
    /\ \E o \in Outcomes :
        LET texts == ProviderTexts(texts_to_translate)
            text == texts[k]
            r == translate_single(text, o)
        IN  /\ requests' = Bump(requests, text)
            /\ tries' = Put(tries, text, [n |-> IF text \in DOMAIN tries THEN tries[text].n + 1 ELSE 1, last |-> o])
            /\ seen' = seen \cup {o}
            /\ obtained' = IF o = "ok" THEN obtained \cup {<<text, Strip(RemoteContent(text, o))>>}
                           ELSE obtained
            /\ IF r.raised
               THEN IF attempt < max_retries
                    THEN /\ attempt' = attempt + 1
                         /\ k' = 1
                         /\ results' = ProviderSkipped(texts_to_translate)
                         /\ pc' = "provider"
                         /\ UNCHANGED <<text_cache_map, translations>>
                    ELSE /\ text_cache_map' = FallbackMap(text_cache_map, texts_to_translate)
                         /\ translations' = FallbackMap(text_cache_map, texts_to_translate)
                         /\ pc' = ReturnSite
                         /\ UNCHANGED <<attempt, k, results>>
               ELSE /\ results' = Put(results, text, r.value)
                    /\ k' = k + 1
                    /\ pc' = IF k = Len(texts) THEN "merge" ELSE "provider"
                    /\ UNCHANGED <<attempt, text_cache_map, translations>>
    /\ UNCHANGED <<call, create_backup_file, backupFile, batch_size,
                    max_retries,
                    save_interval, inputFile,
                    outputFile, cacheFile, workbook, cache, phase, saveRet,
                    lastSave, lastCacheSave, interrupted, all_cells,
                    formula_cells, i, fi, batch, w, cells_processed,
                    cells_translated, pbar, chinese_strings, cells,
                    texts_to_translate, hlog>>

\* a save_cache whose failure ends the run
save_cache_raises(ok) == IF ok THEN ReturnSite ELSE "aborted"

\* where translate_cells_batch goes after save_cache: save_cache logs and
\* swallows a failed write, so the loop breaks and the map is returned
save_cache_returns(ok) == ReturnSite

\* translate_cells_batch after translate_batch returned: update the cache,
\* save_cache, break, return text_cache_map
MergeResults ==
    /\ pc = "merge"
    /\ cache' = MergedCache(cache, results)
    /\ text_cache_map' = MergedMap(text_cache_map, results)
    /\ translations' = MergedMap(text_cache_map, results)
    /\ \E ok \in BOOLEAN :
        /\ cacheFile' = save_cache(MergedCache(cache, results), cacheFile, ok)
        /\ lastCacheSave' = IF ok THEN "ok" ELSE "failed"
        /\ pc' = save_cache_returns(ok)
    /\ UNCHANGED <<call, create_backup_file, backupFile, batch_size,
                    max_retries,
                    save_interval, inputFile,
                    outputFile, workbook, phase, saveRet, lastSave,
                    interrupted, all_cells, formula_cells, i, fi, batch, w,
                    cells_processed, cells_translated, pbar, chinese_strings,
                    cells, texts_to_translate, attempt, results, k, requests,
                    seen, obtained, tries, hlog>>

\* "Update cells with translations": one cell of the batch, or the end of
\* the iteration
WriteBack ==
    /\ pc = "writeback"
    /\ IF w <= Len(batch)
       THEN LET original_text == workbook[batch[w]].v
                apply == /\ original_text \in DOMAIN translations
                         /\ translations[original_text] # original_text
            IN  /\ workbook' = IF apply
                               THEN [workbook EXCEPT ![batch[w]] = Str(translations[original_text])]
                               ELSE workbook
                /\ cells_translated' = IF apply THEN cells_translated + 1 ELSE cells_translated
                /\ pbar' = pbar + 1
                /\ w' = w + 1
                /\ UNCHANGED <<i, pc>>
       ELSE /\ i' = i + batch_size
            /\ pc' = "plain_loop"
            /\ UNCHANGED <<workbook, cells_translated, pbar, w>>
    /\ UNCHANGED <<call, create_backup_file, backupFile, batch_size,
                    max_retries,
                    save_interval, inputFile,
                    outputFile, cacheFile, cache, phase, saveRet, lastSave,
                    lastCacheSave, interrupted, all_cells, formula_cells, fi,
                    batch, cells_processed, chinese_strings, cells,
                    texts_to_translate, text_cache_map, attempt,
                    translations, results, k, requests, seen, obtained,
                    tries, hlog>>

\* "Process formula cells": extract and filter the literals of one cell, or
\* leave the loop for the final save
\* a filter that keeps every literal
qualifying_strings_all(strings) == strings

\* chinese_strings = [s for s in strings if is_chinese(s)]
qualifying_strings(strings) == SelectSeq(strings, LAMBDA s : is_chinese(Str(s)))

FormulaLoop ==
    /\ pc = "formula_loop"
    /\ IF fi <= Len(formula_cells)
       THEN LET original_formula == workbook[formula_cells[fi]].v
                strings == findall(original_formula)
                cs == qualifying_strings(strings)
            IN  /\ chinese_strings' = cs
                /\ saveRet' = saveRet
                /\ IF cs # <<>>
                   THEN /\ cells' = [j \in 1..Len(cs) |-> Str(cs[j])]
                        /\ phase' = "formula"
                        /\ pc' = "translate"
                   ELSE /\ pc' = "formula_done"
                        /\ UNCHANGED <<cells, phase>>
       ELSE /\ pc' = "save"
            /\ saveRet' = "done"
            /\ UNCHANGED <<chinese_strings, cells, phase>>
    /\ UNCHANGED <<call, create_backup_file, backupFile, batch_size,
                    max_retries,
                    save_interval, inputFile,
                    outputFile, cacheFile, workbook, cache, lastSave,
                    lastCacheSave, interrupted, all_cells, formula_cells, i,
                    fi, batch, w, cells_processed, cells_translated, pbar,
                    texts_to_translate, text_cache_map, attempt,
                    translations, results, k, requests, seen, obtained,
                    tries, hlog>>

\* "Replace strings in formula" and "Update cell if formula changed"
FormulaReplace ==
    /\ pc = "formula_replace"
    /\ LET original_formula == workbook[formula_cells[fi]].v
           translated_formula == rewrite_formula(original_formula, chinese_strings, translations)
       IN  IF translated_formula # original_formula
           THEN /\ workbook' = [workbook EXCEPT ![formula_cells[fi]] = Str(translated_formula)]
                /\ cells_translated' = cells_translated + 1
           ELSE UNCHANGED <<workbook, cells_translated>>
    /\ pc' = "formula_done"
    /\ UNCHANGED <<call, create_backup_file, backupFile, batch_size,
                    max_retries,
                    save_interval, inputFile,
                    outputFile, cacheFile, cache, phase, saveRet, lastSave,
                    lastCacheSave, interrupted, all_cells, formula_cells, i,
                    fi, batch, w, cells_processed, pbar, chinese_strings,
                    cells, texts_to_translate, text_cache_map, attempt,
                    translations, results, k, requests, seen, obtained,
                    tries, hlog>>

\* the end of one formula cell: progress, counter, periodic save
FormulaDone ==
    /\ pc = "formula_done"
    /\ pbar' = pbar + 1
    /\ cells_processed' = cells_processed + 1
    /\ fi' = fi + 1
    /\ IF (cells_processed + 1) % save_interval = 0
       THEN pc' = "save" /\ saveRet' = "formula_loop"
       ELSE pc' = "formula_loop" /\ saveRet' = saveRet
    /\ UNCHANGED <<call, create_backup_file, backupFile, batch_size,
                    max_retries,
                    save_interval, inputFile,
                    outputFile, cacheFile, workbook, cache, phase, lastSave,
                    lastCacheSave, interrupted, all_cells, formula_cells, i,
                    batch, w, cells_translated, chinese_strings, cells,
                    texts_to_translate, text_cache_map, attempt,
                    translations, results, k, requests, seen, obtained,
                    tries, hlog>>

\* ------------------------------------------------------------------------
\* SIGINT
\* ------------------------------------------------------------------------
\* the positions at which the handler is installed and the run not over
RunningPcs ==
    {"scan", "plain_loop", "save", "save_writing", "translate", "provider",
     "merge", "writeback", "formula_loop", "formula_replace", "formula_done"}

\* SIGINT arrives: signal_handler starts with workbook.save.  The frames it
\* interrupts are never resumed, so their locals are dropped here.
Interrupt ==
    /\ ~interrupted
    /\ pc \in RunningPcs
    /\ interrupted' = TRUE
    /\ pc' = "save"
    /\ saveRet' = "h_cache"
    /\ batch' = <<>>
    /\ w' = 1
    /\ i' = 0
    /\ fi' = 1
    /\ phase' = "plain"
    /\ chinese_strings' = <<>>
    /\ cells' = <<>>
    /\ texts_to_translate' = <<>>
    /\ text_cache_map' = EmptyMap
    /\ attempt' = 0
    /\ translations' = EmptyMap
    /\ results' = EmptyMap
    /\ k' = 1
    /\ tries' = EmptyMap
    /\ UNCHANGED <<call, create_backup_file, backupFile, batch_size,
                    max_retries,
                    save_interval, inputFile,
                    outputFile, cacheFile, workbook, cache, lastSave,
                    lastCacheSave, all_cells, formula_cells, cells_processed,
                    cells_translated, pbar, requests, seen, obtained, hlog>>

\* signal_handler, the finally clause: save_cache, then exit(0)
HandlerSaveCache ==
    /\ pc = "h_cache"
    /\ \E ok \in BOOLEAN :
        /\ cacheFile' = save_cache(cache, cacheFile, ok)
        /\ lastCacheSave' = IF ok THEN "ok" ELSE "failed"
        /\ hlog' = Append(hlog, IF ok THEN "cache_ok" ELSE "cache_failed")
    /\ pc' = "exited"
    /\ UNCHANGED <<call, create_backup_file, backupFile, batch_size,
                    max_retries,
                    save_interval, inputFile,
                    outputFile, workbook, cache, phase, saveRet, lastSave,
                    interrupted, all_cells, formula_cells, i, fi, batch, w,
                    cells_processed, cells_translated, pbar, chinese_strings,
                    cells, texts_to_translate, text_cache_map, attempt,
                    translations, results, k, requests, seen, obtained,
                    tries>>

\* SIGINT arrives before setup_signal_handler has run: the default handler
\* raises KeyboardInterrupt inside create_backup, shutil.copy2 or
\* load_workbook, no "except Exception" catches it, and main() ends the
\* process with sys.exit(1)
KeyboardInterrupt ==
    /\ pc \in {"backup", "copy", "load"}
    /\ pc' = "keyboard_interrupt"
    /\ backupFile' \in (IF pc = "backup" /\ create_backup_file
                         THEN {backupFile, Partial} ELSE {backupFile})
    /\ outputFile' \in (IF pc = "copy" THEN {outputFile, Partial} ELSE {outputFile})
    /\ UNCHANGED <<call, create_backup_file, batch_size, max_retries,
                    save_interval, inputFile,
                    cacheFile, workbook, cache, phase, saveRet, lastSave,
                    lastCacheSave, interrupted, all_cells, formula_cells, i,
                    fi, batch, w, cells_processed, cells_translated, pbar,
                    chinese_strings, cells, texts_to_translate,
                    text_cache_map, attempt, translations, results, k,
                    requests, seen, obtained, tries, hlog>>

\* the status the process ends with: exit(0) in signal_handler, sys.exit(1)
\* in main() on KeyboardInterrupt, 0 when main() returns
exit_status == IF pc = "keyboard_interrupt" THEN 1 ELSE 0

Next ==
    \/ CreateBackup
    \/ InitialCopy
    \/ LoadWorkbook
    \/ ScanCells
    \/ PlainLoopHead
    \/ SaveOpen
    \/ SaveWrite
    \/ EnterTranslate
    \/ RemoteCall
    \/ MergeResults
    \/ WriteBack
    \/ FormulaLoop
    \/ FormulaReplace
    \/ FormulaDone
    \/ Interrupt
    \/ HandlerSaveCache
    \/ KeyboardInterrupt

Spec == Init /\ [][Next]_vars

\* ------------------------------------------------------------------------
\* Formula rewriting on its own: translate_file at "Replace strings in
\* formula" for one formula cell, every literal served by the cache
\* ------------------------------------------------------------------------
MaxLiterals == 2
\* the texts between the quotes of the formulas tried
LiteralTexts == {<<>>, <<ZH_NI>>, <<ZH_HAO>>, <<SLASH>>, <<ZH_NI, ZH_HAO>>}
\* the operator between two literals: '&'
Amp == <<38>>
RECURSIVE JoinLiterals(_)
JoinLiterals(lits) ==
    IF Len(lits) = 1 THEN Quoted(lits[1])
    ELSE Quoted(Head(lits)) \o Amp \o JoinLiterals(Tail(lits))
\* well-formed formulas: '=' and one or more quoted literals joined by '&'
Formulas ==
    {<<EQ>> \o JoinLiterals(ls) :
        ls \in UNION {[1..n -> LiteralTexts] : n \in 1..MaxLiterals}}
\* what a cache can hold for a literal: a text of the source script, a
\* text outside the pattern, an empty string
LiteralTranslations == {<<ZH_HAO>>, <<SLASH>>, <<>>}

InitFormula ==
    /\ call = NoCall
    /\ create_backup_file = FALSE
    /\ backupFile = Missing
    /\ batch_size = 1
    /\ max_retries = 0
    /\ save_interval = MaxSaveInterval
    /\ inputFile \in {<<Str(f)>> : f \in Formulas}
    /\ outputFile = Complete(inputFile)
    /\ workbook = inputFile
    /\ chinese_strings = SelectSeq(findall(inputFile[1].v), LAMBDA s : is_chinese(Str(s)))
    /\ chinese_strings # <<>>
    /\ translations \in [Range(chinese_strings) -> LiteralTranslations]
    /\ text_cache_map = translations
    /\ cache = [key \in {get_cache_key(t) : t \in DOMAIN translations} |->
                   translations[CHOOSE t \in DOMAIN translations : get_cache_key(t) = key]]
    /\ cacheFile = cache
    /\ cells = [j \in 1..Len(chinese_strings) |-> Str(chinese_strings[j])]
    /\ texts_to_translate = <<>>
    /\ pc = "formula_replace"
    /\ phase = "formula"
    /\ saveRet = "none"
    /\ lastSave = "none"
    /\ lastCacheSave = "none"
    /\ interrupted = FALSE
    /\ all_cells = <<>>
    /\ formula_cells = <<1>>
    /\ i = 0
    /\ fi = 1
    /\ batch = <<>>
    /\ w = 1
    /\ cells_processed = 0
    /\ cells_translated = 0
    /\ pbar = 0
    /\ attempt = 0
    /\ results = EmptyMap
    /\ k = 1
    /\ requests = EmptyMap
    /\ seen = {}
    /\ obtained = {}
    /\ tries = EmptyMap
    /\ hlog = <<>>

SpecFormula == InitFormula /\ [][FormulaReplace]_vars

\* ------------------------------------------------------------------------
\* Properties
\* ------------------------------------------------------------------------
\* translate_cells_batch has returned to translate_file
Returned == pc \in {"writeback", "formula_replace"} /\ texts_to_translate # <<>>

\* no part of the cell's text is served by the cache
NotCached(val) ==
    IF StartsWithEq(val.v)
    THEN \A s \in Range(findall(val.v)) : ~(get_cache_key(s) \in DOMAIN cache)
    ELSE ~(get_cache_key(val.v) \in DOMAIN cache)

Loaded == Len(workbook) = Len(inputFile)

\* C1: if every remote request so far failed with a transport error, every
\* text sent to the client maps to itself in the result translate_cells_batch
\* returns, and every candidate cell not served by the cache still holds its
\* original, non-empty value
C1_FallbackKeepsOriginals ==
    (seen = {"error"}) =>
        /\ Returned => \A t \in Range(texts_to_translate) :
                           t \in DOMAIN translations /\ translations[t] = t
        /\ Loaded => \A c \in DOMAIN workbook :
                         (IsCandidate(inputFile[c]) /\ NotCached(inputFile[c])) =>
                             (workbook[c] = inputFile[c] /\ workbook[c].v # <<>>)

C1_Witness ==
    /\ seen = {"error"}
    /\ pc = "done"
    /\ \E c \in DOMAIN workbook :
          /\ IsCandidate(inputFile[c]) /\ NotCached(inputFile[c])
          /\ Count(requests, inputFile[c].v) > 0
          /\ workbook[c] = inputFile[c]

\* C2: when translate_cells_batch returns, a text whose last request failed
\* with a transport error has been requested max_retries + 1 times
C2_RetriedUntilExhausted ==
    Returned => \A t \in DOMAIN tries :
                    tries[t].last = "error" => tries[t].n >= max_retries + 1

\* C3: an empty result is never recorded: no cache entry is empty, no cell
\* is emptied, and a text whose last answer was empty was requested
\* max_retries + 1 times and maps to itself
C3_EmptyNeverRecorded ==
    /\ \A key \in DOMAIN cache : cache[key] # <<>>
    /\ Loaded => \A c \in DOMAIN workbook :
                     workbook[c].v = <<>> => inputFile[c].v = <<>>
    /\ Returned => \A t \in DOMAIN tries :
                       tries[t].last = "empty" =>
                           (tries[t].n >= max_retries + 1 /\ translations[t] = t)

\* C4: a request is only ever issued for a text whose fingerprint is not in
\* the cache, and a written-back cell of the batch whose text was found in
\* the cache holds the cached translation
C4_CachedCellState ==
    (pc = "writeback") =>
        \A j \in 1..(w - 1) :
            (j <= Len(batch) /\ ~(cells[j].v \in Range(texts_to_translate))) =>
                /\ get_cache_key(cells[j].v) \in DOMAIN cache
                /\ workbook[batch[j]].v = cache[get_cache_key(cells[j].v)]

C4_RequestStep ==
    \A t \in DOMAIN requests' :
        (Count(requests', t) > Count(requests, t)) =>
            ~(get_cache_key(t) \in DOMAIN cache)

C5_OneRequestPerText ==
    (pc = "done" /\ lastSave = "ok") =>
        \A c1 \in DOMAIN workbook : \A c2 \in DOMAIN workbook :
            (c1 # c2 /\ inputFile[c1] = inputFile[c2] /\ IsCandidate(inputFile[c1])
                /\ ~StartsWithEq(inputFile[c1].v)) =>
                /\ Count(requests, inputFile[c1].v) <= 1
                /\ (Count(requests, inputFile[c1].v) = 0) =>
                       (get_cache_key(inputFile[c1].v) \in DOMAIN cache)
                /\ workbook[c1] = workbook[c2]

\* the formula with every literal matched by string_pattern that satisfies
\* is_chinese and has a translation replaced, in place, by that translation
RECURSIVE RewrittenInPlace(_, _, _)
RewrittenInPlace(s, p, tr) ==
    LET opens == {j \in p..Len(s) : s[j] = QUOTE}
    IN  IF opens = {} THEN SubSeq(s, p, Len(s))
        ELSE LET o == SetMin(opens)
                 closes == {j \in (o+1)..Len(s) : s[j] = QUOTE}
             IN  IF closes = {} THEN SubSeq(s, p, Len(s))
                 ELSE LET c == SetMin(closes)
                          lit == SubSeq(s, o+1, c-1)
                          new == IF is_chinese(Str(lit)) /\ lit \in DOMAIN tr
                                 THEN tr[lit] ELSE lit
                      IN  SubSeq(s, p, o) \o new \o <<QUOTE>> \o RewrittenInPlace(s, c+1, tr)

\* C6: after a formula cell is rewritten it holds its formula with every
\* qualifying literal replaced by its translation and every other character
\* as it was
C6_FormulaRewrittenInPlace ==
    (pc = "formula_done" /\ chinese_strings # <<>> /\ ~interrupted) =>
        workbook[formula_cells[fi]].v =
            RewrittenInPlace(inputFile[formula_cells[fi]].v, 1, translations)

\* the candidate cells whose translation is applied in memory and absent
\* from the document at the output path
Unsaved ==
    {c \in DOMAIN workbook : workbook[c] # inputFile[c] /\ outputFile.cells[c] # workbook[c]}

\* C7: while no save has failed, at most save_interval cells are translated
\* in memory and missing from the persisted document
C7_UnsavedAtMostInterval ==
    (Loaded /\ outputFile.state = "complete" /\ lastSave # "failed") =>
        Cardinality(Unsaved) <= save_interval

\* C8: once the initial copy has succeeded the file at the output path is a
\* complete document
C8_OutputAlwaysComplete ==
    (pc \notin {"copy", "copy_failed", "keyboard_interrupt"}) =>
        outputFile.state # "partial"

\* C9: the handler saves the document, then the cache (also after a failed
\* document save), then exits; from its start on no request is issued and
\* no cell is written
C9_HandlerState ==
    /\ (pc = "exited") =>
          /\ Len(hlog) = 2
          /\ hlog[1] \in {"save_ok", "save_failed"}
          /\ hlog[2] \in {"cache_ok", "cache_failed"}
          /\ (hlog[1] = "save_ok") => (outputFile = Complete(workbook))
          /\ (hlog[2] = "cache_ok") => (cacheFile = cache)
    /\ (pc = "h_cache") => (Len(hlog) = 1 /\ hlog[1] \in {"save_ok", "save_failed"})

C9_HandlerStep == interrupted => (requests' = requests /\ workbook' = workbook)

C9_HandlerSavesThenExits == [](C9_HandlerState) /\ [][C9_HandlerStep]_vars

C9_Witness ==
    /\ pc = "exited"
    /\ hlog = <<"save_failed", "cache_ok">>
    /\ requests # EmptyMap
    /\ cacheFile = cache
    /\ cache # EmptyMap

\* C10: the cache file the handler has written holds every translation the
\* run obtained before the interrupt, and the handler's write drops no entry
\* the file held
C10_FlushState ==
    (pc = "exited" /\ hlog[2] = "cache_ok") =>
        \A pair \in obtained :
            (pair[2] # pair[1] /\ pair[2] # <<>>) =>
                /\ get_cache_key(pair[1]) \in DOMAIN cacheFile
                /\ cacheFile[get_cache_key(pair[1])] = pair[2]

C10_HandlerWriteStep ==
    (pc = "h_cache") =>
        \A key \in DOMAIN cacheFile :
            key \in DOMAIN cacheFile' /\ cacheFile'[key] = cacheFile[key]

C10_InterruptFlushesAll == [](C10_FlushState) /\ [][C10_HandlerWriteStep]_vars

\* ------------------------------------------------------------------------
\* C11
\* ------------------------------------------------------------------------
\* a cell value the run has to translate: a str, not blank, holding a code
\* point of the pattern
SourceText(val) ==
    /\ val.t = "str"
    /\ Strip(val.v) # <<>>
    /\ \E j \in 1..Len(val.v) : InChinesePattern(val.v[j])

NothingToTranslate == \A c \in DOMAIN inputFile : ~SourceText(inputFile[c])

C11_State ==
    NothingToTranslate =>
        /\ requests = EmptyMap
        /\ Loaded => workbook = inputFile
        /\ (outputFile.state = "complete") => outputFile.cells = inputFile

C11_Step == NothingToTranslate => (cache' = cache /\ cacheFile' = cacheFile)

C12_AbortState ==
    (pc = "copy_failed") =>
        /\ workbook = <<>>
        /\ requests = EmptyMap
        /\ cache = load_cache(cacheFile)
        /\ lastCacheSave = "none"
        /\ lastSave = "none"

\* a copy step that leaves no complete copy ends the run, and a run whose
\* copy failed takes no further step
C12_CopyStep ==
    /\ (pc = "copy" /\ outputFile' # Complete(inputFile) /\ pc' # "keyboard_interrupt") =>
          pc' = "copy_failed"
    /\ pc # "copy_failed"

\* C12 (amended): if the initial copy fails, the run aborts: the document
\* is never opened, no request is issued, the cache is not modified, and no
\* step after the failed copy writes to the output path
C12_CopyFailureAborts == [](C12_AbortState) /\ [][C12_CopyStep]_vars

\* the copy failed while it was writing the destination
C12_Witness == pc = "copy_failed" /\ outputFile = Partial

\* C12 (as stated): if the initial copy fails, the document is never opened,
\* no request is issued, the cache is not modified, and nothing is written to
\* the output path
C12_NothingWrittenToOutput ==
    (pc = "copy_failed") =>
        /\ workbook = <<>>
        /\ requests = EmptyMap
        /\ cache = load_cache(cacheFile)
        /\ outputFile = Missing

\* ------------------------------------------------------------------------
\* C13
\* ------------------------------------------------------------------------
\* the positions before the scan has finished
BeforeScanned == {"backup", "copy", "copy_failed", "load", "aborted", "scan"}

\* the positions of the formula loop
InFormulaLoop == {"formula_loop", "formula_replace", "formula_done"}

PlainDone == i >= Len(all_cells)
FormulasDone == fi > Len(formula_cells)

C13_PhaseState ==
    /\ (backupFile # Missing) => create_backup_file
    /\ (pc = "backup") => outputFile = Missing
    /\ (pc \in {"backup", "copy", "copy_failed"}) => workbook = <<>>
    /\ (pc \in BeforeScanned) =>
          /\ requests = EmptyMap
          /\ all_cells = <<>> /\ formula_cells = <<>>
          /\ lastSave = "none"
    /\ (pc \in InFormulaLoop \/ phase = "formula") => PlainDone
    /\ ((pc \in {"save", "save_writing"} /\ saveRet = "done") \/ pc = "done") =>
          PlainDone /\ FormulasDone

C13_PhaseStep ==
    /\ (backupFile' # backupFile) => pc = "backup"
    /\ (requests' # requests) => (pc \notin BeforeScanned)
    /\ (pc' = "done") => (pc = "save_writing" \/ pc = "save") /\ saveRet = "done"

\* C13: a run goes through backup (when enabled), initial copy, load and
\* scan, plain-text batches, formula cells, final save, in this order: no
\* request before the scan has finished, no formula cell before the last
\* plain-text batch, the final save after the last formula cell
C13_PhasesInOrder == [](C13_PhaseState) /\ [][C13_PhaseStep]_vars

\* a completed run with a backup, a plain-text cell and a formula cell, both
\* of which caused a request
C13_Witness ==
    /\ pc = "done"
    /\ lastSave = "ok"
    /\ backupFile = Complete(inputFile)
    /\ Len(all_cells) > 0
    /\ Len(formula_cells) > 0
    /\ \E t1 \in DOMAIN requests : \E t2 \in DOMAIN requests : t1 # t2

\* ------------------------------------------------------------------------
\* Functions of utils.py called on their own
\* ------------------------------------------------------------------------
\* every variable of the run
run_vars ==
    <<create_backup_file, backupFile, batch_size, max_retries,
      save_interval, inputFile, outputFile, cacheFile, workbook, cache, pc,
      phase, saveRet, lastSave, lastCacheSave, interrupted, all_cells,
      formula_cells, i, fi, batch, w, cells_processed, cells_translated,
      pbar, chinese_strings, cells, texts_to_translate, text_cache_map,
      attempt, translations, results, k, requests, seen, obtained, tries,
      hlog>>

\* no run is in progress
Idle ==
    /\ create_backup_file = FALSE
    /\ backupFile = Missing
    /\ batch_size = 1
    /\ max_retries = 0
    /\ save_interval = 1
    /\ inputFile = <<>>
    /\ outputFile = Missing
    /\ cacheFile = EmptyMap
    /\ workbook = <<>>
    /\ cache = EmptyMap
    /\ pc = "idle"
    /\ phase = "plain"
    /\ saveRet = "none"
    /\ lastSave = "none"
    /\ lastCacheSave = "none"
    /\ interrupted = FALSE
    /\ all_cells = <<>>
    /\ formula_cells = <<>>
    /\ i = 0
    /\ fi = 1
    /\ batch = <<>>
    /\ w = 1
    /\ cells_processed = 0
    /\ cells_translated = 0
    /\ pbar = 0
    /\ chinese_strings = <<>>
    /\ cells = <<>>
    /\ texts_to_translate = <<>>
    /\ text_cache_map = EmptyMap
    /\ attempt = 0
    /\ translations = EmptyMap
    /\ results = EmptyMap
    /\ k = 1
    /\ requests = EmptyMap
    /\ seen = {}
    /\ obtained = {}
    /\ tries = EmptyMap
    /\ hlog = <<>>

MaxTextLen == 2

\* all sequences over S of length at most n
SeqsUpTo(S, n) == UNION {[1..m -> S] : m \in 0..n}

\* values that are not a str: None, a list (Num is a number)
NoneValue == [t |-> "none", v |-> <<>>]
ListValue == [t |-> "list", v |-> <<>>]

\* code points of the texts classified: space, no-break space, '!', '1',
\* 'a', U+4F60, U+20000
ClassifyAlphabet == {SP, 160, 33, 49, 97, ZH_NI, 131072}

ClassifyInputs ==
    {NoneValue, ListValue, Num} \cup
    {Str(s) : s \in SeqsUpTo(ClassifyAlphabet, MaxTextLen)}

InitClassify ==
    /\ Idle
    /\ call \in {[fn |-> "is_chinese", arg |-> val, ret |-> <<>>] : val \in ClassifyInputs}

\* is_chinese(text) is called and returns
Classify ==
    /\ call.fn = "is_chinese"
    /\ call.ret = <<>>
    /\ call' = [call EXCEPT !.ret = <<is_chinese(call.arg)>>]
    /\ UNCHANGED run_vars

SpecClassify == InitClassify /\ [][Classify]_vars

\* the source-script ranges listed above chinese_pattern
DeclaredRange(c) ==
    \/ c \in 19968..40959      \* 4E00-9FFF
    \/ c \in 13312..19903      \* 3400-4DBF
    \/ c \in 131072..173791    \* 20000-2A6DF
    \/ c \in 173824..177983    \* 2A700-2B73F
    \/ c \in 177984..178207    \* 2B740-2B81F
    \/ c \in 178208..183983    \* 2B820-2CEAF
    \/ c \in 12032..12255      \* 2F00-2FDF
    \/ c \in 12288..12351      \* 3000-303F

HasSourceScript(s) == \E j \in 1..Len(s) : DeclaredRange(s[j])

Classified == call.fn = "is_chinese" /\ call.ret # <<>>

\* C14: is_chinese returns False for every string that holds no code point
\* of the source script (the empty string, digits, Latin letters)
C14_NoSourceScriptIsFalse ==
    (Classified /\ call.arg.t = "str" /\ ~HasSourceScript(call.arg.v)) =>
        call.ret = <<FALSE>>

\* C15: is_chinese returns True for every string that holds a code point of
\* one of the declared ranges, whatever else it holds
C15_SourceScriptIsTrue ==
    (Classified /\ call.arg.t = "str" /\ HasSourceScript(call.arg.v)) =>
        call.ret = <<TRUE>>

\* C16: is_chinese returns False for every value that is not a str and for
\* every blank string (empty, or whitespace only)
C16_NonStringOrBlankIsFalse ==
    (Classified /\ (call.arg.t # "str" \/ Strip(call.arg.v) = <<>>)) =>
        call.ret = <<FALSE>>

\* ------------------------------------------------------------------------
\* get_cache_key at its two call sites
\* ------------------------------------------------------------------------
\* the texts keyed
KeyCorpus == {<<ZH_NI>>, <<ZH_HAO>>, <<ZH_NI, ZH_HAO>>, <<ZH_HAO, ZH_NI>>}

\* where a text comes from when translate_cells_batch handles it: the
\* sheet of its cell, the context string and the target language of the run
CallSites ==
    [text : KeyCorpus, sheet_name : 1..2,
     context : {"spreadsheet", "questionnaire"}, target_lang : {"en", "fr"}]

\* a key that also depends on the context string
site_cache_key_with_context(site) ==
    get_cache_key(site.text \o (IF site.context = "spreadsheet" THEN <<1>> ELSE <<2>>))

\* translate_cells_batch, "cache_key = get_cache_key(text)", in the lookup
\* and in the cache update: of all it has at hand only the text is passed
site_cache_key(site) == get_cache_key(site.text)

InitCacheKey ==
    /\ Idle
    /\ call \in {[fn |-> "get_cache_key", arg |-> <<s1, s2>>, ret |-> <<>>] :
                    s1 \in CallSites, s2 \in CallSites}

\* the translation of the first site's text is stored under its key, then
\* the second site's text is looked up
StoreThenLookup ==
    /\ call.fn = "get_cache_key"
    /\ call.ret = <<>>
    /\ LET stored == Put(EmptyMap, site_cache_key(call.arg[1]), Translit(call.arg[1].text))
           key == site_cache_key(call.arg[2])
       IN  call' = [call EXCEPT !.ret =
                       <<site_cache_key(call.arg[1]), key, key \in DOMAIN stored>>]
    /\ UNCHANGED run_vars

SpecCacheKey == InitCacheKey /\ [][StoreThenLookup]_vars

py_dict(m) == [kind |-> "dict", val |-> m]
py_list == [kind |-> "list", val |-> EmptyMap]
py_None == [kind |-> "NoneType", val |-> EmptyMap]

\* the text of a cache file: a JSON object, a JSON array, the JSON value
\* null, or text that is not JSON (for instance a truncated file)
json_object(m) == [kind |-> "object", val |-> m]
json_array == [kind |-> "array", val |-> EmptyMap]
json_null == [kind |-> "null", val |-> EmptyMap]
not_json == [kind |-> "invalid", val |-> EmptyMap]

\* json.dump(cache, f, ensure_ascii=False, indent=2) of a str-to-str dict
json_dump(c) == json_object(c)

\* the file at a path: absent, present but not readable, or its text
NoFile == [state |-> "missing", content |-> not_json]
UnreadableFile == [state |-> "unreadable", content |-> not_json]
TextFile(content) == [state |-> "text", content |-> content]

\* cache_file as a path: inside an existing directory, inside a directory
\* that does not exist yet, or a bare file name (os.path.dirname is '')
CachePaths == {"in_dir", "in_new_dir", "bare"}

\* how the operating system treats the write: it works, open() raises, or
\* the write raises after the file was truncated
WriteOutcomes == {"ok", "open_fails", "write_fails"}

\* save_cache(cache, cache_file): the file afterwards.  os.makedirs of the
\* directory part (it raises FileNotFoundError for ''), open for writing,
\* json.dump; any exception is logged and swallowed
save_cache_path(c, path, file, io) ==
    IF path = "bare" THEN file
    ELSE IF io = "open_fails" THEN file
    ELSE IF io = "write_fails" THEN TextFile(not_json)
    ELSE TextFile(json_dump(c))

\* load_cache(cache_file): cache = {}; if the path exists, cache =
\* json.load(f), then the log line with len(cache); any exception is logged
\* and swallowed; return cache
load_cache_path(file) ==
    IF file.state # "text" THEN py_dict(EmptyMap)
    ELSE CASE file.content.kind = "object"  -> py_dict(file.content.val)
           [] file.content.kind = "array"   -> py_list
           [] file.content.kind = "null"    -> py_None
           [] OTHER                         -> py_dict(EmptyMap)

\* the cache mappings saved
CacheMappings ==
    {EmptyMap,
     Put(EmptyMap, get_cache_key(<<ZH_NI>>), Translit(<<ZH_NI>>)),
     Put(Put(EmptyMap, get_cache_key(<<ZH_NI>>), Translit(<<ZH_NI>>)),
         get_cache_key(<<ZH_HAO>>), <<>>)}

\* the cache file before the call
CacheFiles ==
    {NoFile, UnreadableFile, TextFile(not_json), TextFile(json_array),
     TextFile(json_null)} \cup {TextFile(json_object(m)) : m \in CacheMappings}

InitCacheIO ==
    /\ Idle
    /\ call \in {[fn |-> "cache_io", arg |-> [c |-> c, path |-> p], file |-> f,
                  before |-> f, io |-> "none", ret |-> <<>>] :
                    c \in CacheMappings, p \in CachePaths, f \in CacheFiles}

\* save_cache(c, path); a file in a directory that does not exist yet does
\* not exist
SaveCache ==
    /\ call.fn = "cache_io"
    /\ call.io = "none"
    /\ call.ret = <<>>
    /\ (call.arg.path = "in_new_dir") => (call.file = NoFile)
    /\ \E io \in WriteOutcomes :
          call' = [call EXCEPT !.io = io,
                      !.file = save_cache_path(call.arg.c, call.arg.path, call.file, io)]
    /\ UNCHANGED run_vars

\* load_cache(path)
LoadCache ==
    /\ call.fn = "cache_io"
    /\ call.ret = <<>>
    /\ (call.arg.path = "in_new_dir" /\ call.io = "none") => (call.file = NoFile)
    /\ call' = [call EXCEPT !.ret = <<load_cache_path(call.file)>>]
    /\ UNCHANGED run_vars

SpecCacheIO == InitCacheIO /\ [][SaveCache \/ LoadCache]_vars

\* C18: save_cache(c, f) followed by load_cache(f) returns a mapping equal
\* to c, for every mapping and every path (the operating system not failing
\* the write, and f absent or a cache file before the call)
C18_SaveThenLoadRoundTrip ==
    (/\ call.fn = "cache_io" /\ call.io = "ok" /\ call.ret # <<>>
     /\ (call.before = NoFile \/ call.before.content.kind = "object")) =>
        call.ret[1] = py_dict(call.arg.c)

\* C19: load_cache always returns a mapping, and an empty one when the file
\* is missing, unreadable, or does not hold a cache mapping
C19_LoadAlwaysYieldsMapping ==
    (call.fn = "cache_io" /\ call.io = "none" /\ call.ret # <<>>) =>
        /\ call.ret[1].kind = "dict"
        /\ (call.file.state # "text" \/ call.file.content.kind # "object") =>
              call.ret[1] = py_dict(EmptyMap)

\* ------------------------------------------------------------------------
\* C20
\* ------------------------------------------------------------------------
\* the batch just written back had its cache save fail
WrittenBackAfterFailedSave ==
    /\ pc = "writeback"
    /\ w > Len(batch)
    /\ texts_to_translate # <<>>
    /\ lastCacheSave = "failed"

C20_AfterFailedSave ==
    WrittenBackAfterFailedSave =>
        /\ \A t \in DOMAIN results :
              (results[t] # t) => /\ get_cache_key(t) \in DOMAIN cache
                                  /\ cache[get_cache_key(t)] = results[t]
        /\ \A j \in 1..Len(batch) :
              (cells[j].v \in DOMAIN results /\ results[cells[j].v] # cells[j].v) =>
                  workbook[batch[j]] = Str(results[cells[j].v])

C20_FailedSaveStep ==
    /\ (pc = "merge" /\ ~interrupted' /\ lastCacheSave' = "failed") =>
          /\ pc' = ReturnSite
          /\ cache' = MergedCache(cache, results)
          /\ translations' = MergedMap(text_cache_map, results)
          /\ workbook' = workbook
          /\ requests' = requests
    /\ (pc = "h_cache" /\ lastCacheSave' = "failed") =>
          /\ pc' = "exited"
          /\ cache' = cache
          /\ workbook' = workbook
          /\ requests' = requests

\* C20: a failed write of the cache file is swallowed: the run goes on as
\* after a successful one, the in-memory cache holds the batch's
\* translations, the document is untouched by the failure, no request is
\* caused by it, and the batch's translations are applied to their cells
C20_CacheSaveFailureSwallowed ==
    [](C20_AfterFailedSave) /\ [][C20_FailedSaveStep]_vars

\* a completed run whose cache save failed: the cache file is still empty,
\* the translation is in the in-memory cache and in the saved document
C20_Witness ==
    /\ pc = "done"
    /\ lastSave = "ok"
    /\ lastCacheSave = "failed"
    /\ cacheFile = EmptyMap
    /\ cache # EmptyMap
    /\ \E c \in DOMAIN workbook :
          /\ inputFile[c] = Str(<<ZH_NI>>)
          /\ workbook[c] = Str(Translit(<<ZH_NI>>))
          /\ outputFile.cells[c] = workbook[c]

\* ------------------------------------------------------------------------
\* ExcelTranslate.py (the stand-alone script): one plain-text batch of
\* translate_excel_file
\* ------------------------------------------------------------------------
\* a Python dict in insertion order: a sequence of [key, value] with
\* distinct keys
DictKeys(d) == {d[j].key : j \in 1..Len(d)}
DictSet(d, key, val) ==
    IF key \in DictKeys(d)
    THEN [j \in 1..Len(d) |-> IF d[j].key = key THEN [key |-> key, value |-> val] ELSE d[j]]
    ELSE Append(d, [key |-> key, value |-> val])
DictValues(d) == [j \in 1..Len(d) |-> d[j].value]

\* batch_translate_texts_async, the first loop: results after it (the
\* texts found in the cache, in order)
RECURSIVE FilterResults(_, _, _)
FilterResults(texts, c, res) ==
    IF texts = <<>> THEN res
    ELSE LET text == Head(texts)
         IN  FilterResults(Tail(texts), c,
                IF ~NeedsTranslation(Str(text)) THEN DictSet(res, text, text)
                ELSE IF CacheHit(c, text) THEN DictSet(res, text, c[get_cache_key(text)])
                ELSE res)

\* batch_translate_texts_async, the second loop with every stream_translation
\* succeeding: results after it
RECURSIVE TranslatedResults(_, _)
TranslatedResults(todo, res) ==
    IF todo = <<>> THEN res
    ELSE TranslatedResults(Tail(todo), DictSet(res, Head(todo), Translit(Head(todo))))

\* batch_translate_texts(texts, ...): the dict returned
batch_translate_texts(texts, c) ==
    LET todo == SelectSeq(texts, LAMBDA t : NeedsTranslation(Str(t)) /\ ~CacheHit(c, t))
    IN  TranslatedResults(todo, FilterResults(texts, c, <<>>))

\* translate_excel_file, "Update cells with translations": the values of the
\* batch's cells after the loop over zip(texts_to_translate,
\* translations.values())
UpdateCells(texts, trs) ==
    LET vals == DictValues(trs)
    IN  [idx \in 1..Len(texts) |->
            IF idx <= Len(vals) /\ texts[idx] # vals[idx]
            THEN vals[idx] ELSE texts[idx]]

\* the same loop: the number of master_pbar.update(1) calls, one per pair
\* of the zip
ProgressUpdates(texts, trs) == SetMin({Len(texts), Len(trs)})

\* the texts of a batch's cells, and the caches of earlier runs
LegacyTexts == {<<ZH_NI>>, <<ZH_HAO>>, <<ZH_NI, ZH_HAO>>}
LegacyBatches == UNION {[1..n -> LegacyTexts] : n \in 1..MaxBatchSize}
LegacyCaches ==
    {[key \in {get_cache_key(t) : t \in S} |->
        Translit(CHOOSE t \in S : get_cache_key(t) = key)] : S \in SUBSET LegacyTexts}

InitLegacyBatch ==
    /\ Idle
    /\ call \in {[fn |-> "legacy_batch", arg |-> [texts |-> b, cache |-> c],
                  progress |-> 0, ret |-> <<>>] :
                    b \in LegacyBatches, c \in LegacyCaches}

\* one iteration of "Process regular cells in batches"
LegacyBatch ==
    /\ call.fn = "legacy_batch"
    /\ call.ret = <<>>
    /\ call' = [call EXCEPT
                   !.ret = <<UpdateCells(call.arg.texts,
                                         batch_translate_texts(call.arg.texts, call.arg.cache))>>,
                   !.progress = ProgressUpdates(call.arg.texts,
                                         batch_translate_texts(call.arg.texts, call.arg.cache))]
    /\ UNCHANGED run_vars

SpecLegacyBatch == InitLegacyBatch /\ [][LegacyBatch]_vars

\* C21: after a plain-text batch is written back, every cell of the batch
\* whose text obtained a non-identity translation holds the translation of
\* its own text, whatever the mix of cache hits, misses and duplicates
C21_CellsHoldOwnTranslation ==
    (call.fn = "legacy_batch" /\ call.ret # <<>>) =>
        \A j \in 1..Len(call.arg.texts) :
            call.ret[1][j] = Translit(call.arg.texts[j])

\* ------------------------------------------------------------------------
\* The retry loops: translate_cells_batch (one dispatch of a batch) and
\* batch_translate_texts_async of ExcelTranslate.py (one text)
\* ------------------------------------------------------------------------
DefaultMaxRetries == 5
LegacyBaseDelay == 2

\* a backoff that grows by a fixed step
backoff_linear(base_delay, n) == base_delay * (n + 1)

\* delay = 2 ** attempt, delay = base_delay * (2 ** attempt)
backoff(base_delay, n) == base_delay * (2 ^ n)

\* what one pass through the try block can do: translate_cells_batch leaves
\* it by break or by an exception; batch_translate_texts_async also by a
\* None from stream_translation
TryOutcomes(site) ==
    IF site = "translate_cells_batch" THEN {"ok", "raise"} ELSE {"ok", "none", "raise"}

\* the base of the delay: translate_cells_batch has none (2 ** attempt)
BaseDelay(site) == IF site = "translate_cells_batch" THEN 1 ELSE LegacyBaseDelay

InitRetry ==
    /\ Idle
    /\ call \in {[fn |-> "retry",
                  arg |-> [site |-> s, max_retries |-> m, base_delay |-> BaseDelay(s)],
                  attempt |-> 0, outcomes |-> <<>>, sleeps |-> <<>>, ret |-> <<>>] :
                    s \in {"translate_cells_batch", "batch_translate_texts_async"},
                    m \in 0..DefaultMaxRetries}

\* one iteration of "for attempt in range(max_retries + 1)"
RetryAttempt ==
    /\ call.fn = "retry"
    /\ call.ret = <<>>
    /\ call.attempt <= call.arg.max_retries
    /\ \E o \in TryOutcomes(call.arg.site) :
        call' = IF o = "ok"
                THEN [call EXCEPT !.outcomes = Append(@, o), !.ret = <<"translated">>]
                ELSE IF call.attempt < call.arg.max_retries
                THEN [call EXCEPT !.outcomes = Append(@, o),
                                  !.sleeps = Append(@, backoff(call.arg.base_delay, call.attempt)),
                                  !.attempt = @ + 1]
                ELSE [call EXCEPT !.outcomes = Append(@, o), !.ret = <<"original">>]
    /\ UNCHANGED run_vars

SpecRetry == InitRetry /\ [][RetryAttempt]_vars

WrittenBackCells == {all_cells[j] : j \in 1..SetMin({i, Len(all_cells)})}

\* the plain cells counted by cells_processed
CountedCells == {all_cells[j] : j \in 1..SetMin({cells_processed, Len(all_cells)})}

\* the step that writes a periodic checkpoint
C23_CheckpointStep ==
    (pc = "save_writing" /\ ~interrupted /\ saveRet = "translate" /\ lastSave' = "ok"
        /\ outputFile' = Complete(workbook)) =>
        CountedCells \subseteq WrittenBackCells

\* C23: whenever a periodic checkpoint is written with the counter at c, the
\* c cells counted have been translated and written back, so the persisted
\* document holds their translations
C23_CheckpointHoldsCountedCells == [][C23_CheckpointStep]_vars

\* ------------------------------------------------------------------------
\* C24
\* ------------------------------------------------------------------------
\* workbook.save has opened the output file and not finished writing it
InDocumentSave == pc = "save_writing"

\* some cells of the batch are written back and some are not
InWriteBack == pc = "writeback" /\ 1 < w /\ w <= Len(batch)

\* the step at which signal_handler starts
C24_HandlerStartStep ==
    (~interrupted /\ interrupted') => (~InDocumentSave /\ ~InWriteBack)

\* C24: the interrupt handler never starts in the middle of a document save
\* or of a batch's write-back, so its own save never nests inside a
\* checkpoint
C24_HandlerNeverMidWrite == [][C24_HandlerStartStep]_vars

\* ------------------------------------------------------------------------
\* C25
\* ------------------------------------------------------------------------
\* the positions of a run in progress
InProgressPcs == RunningPcs \cup {"backup", "copy", "load"}

\* a step in which SIGINT arrives
SigintArrives == pc' = "keyboard_interrupt" \/ (~interrupted /\ interrupted')

C25_SigintStep ==
    (pc \in InProgressPcs /\ SigintArrives) =>
        (interrupted' /\ pc' = "save" /\ saveRet' = "h_cache")

C25_ExitState ==
    (pc \in {"exited", "keyboard_interrupt"}) => exit_status = 0

\* C25: an interrupt at any point of a run in progress, backup, initial
\* copy, load and scan included, starts the handler (save the document, save
\* the cache), and the process exits with status zero
C25_InterruptAlwaysControlled == [](C25_ExitState) /\ [][C25_SigintStep]_vars

\* ------------------------------------------------------------------------
\* C26
\* ------------------------------------------------------------------------
\* the cell no longer holds its input value
Applied(doc, c) == doc[c] # inputFile[c]

\* a step that persists the document for a checkpoint or for the handler
C26_PersistStep ==
    (pc = "save_writing" /\ saveRet # "done" /\ outputFile' = Complete(workbook)) =>
        \A c1 \in DOMAIN workbook : \A c2 \in DOMAIN workbook :
            (inputFile[c1] = inputFile[c2] /\ IsCandidate(inputFile[c1])) =>
                (Applied(workbook, c1) <=> Applied(workbook, c2))

\* C26: for a source text held by several cells, every document persisted
\* by a checkpoint or by the interrupt handler has all of those cells
\* translated or none of them
C26_DuplicatesAllOrNone == [][C26_PersistStep]_vars

\* ------------------------------------------------------------------------
\* C27
\* ------------------------------------------------------------------------
\* the candidate cells whose iteration has come before the current one
ProcessedBefore ==
    {all_cells[j] : j \in 1..SetMin({i + w - 1, Len(all_cells)})}
        \cup {formula_cells[j] : j \in 1..SetMin({fi - 1, Len(formula_cells)})}

CandidatesBefore(c) == {c1 \in 1..(c - 1) : IsCandidate(inputFile[c1])}

\* a step that writes back a plain-text cell, or handles a formula cell
C27_ProcessStep ==
    /\ (pc = "writeback" /\ w <= Len(batch) /\ w' = w + 1) =>
          CandidatesBefore(batch[w]) \subseteq ProcessedBefore
    /\ (pc = "formula_loop" /\ fi <= Len(formula_cells) /\ ~interrupted') =>
          CandidatesBefore(formula_cells[fi]) \subseteq ProcessedBefore

\* C27: candidate cells are processed in scan order: when a cell is written
\* back, every candidate cell that precedes it in scan order has been
\* processed
C27_ProcessedInScanOrder == [][C27_ProcessStep]_vars

\* ------------------------------------------------------------------------
\* C28
\* ------------------------------------------------------------------------
\* C28: when a run has completed and its final document save succeeded, the
\* cache file equals the in-memory cache and holds every translation
\* obtained during the run
C28_FinalCachePersisted ==
    (pc = "done" /\ lastSave = "ok") =>
        /\ cacheFile = cache
        /\ \A pair \in obtained :
            (pair[2] # pair[1] /\ pair[2] # <<>>) =>
                /\ get_cache_key(pair[1]) \in DOMAIN cacheFile
                /\ cacheFile[get_cache_key(pair[1])] = pair[2]

\* ------------------------------------------------------------------------
\* C29
\* ------------------------------------------------------------------------
\* a formula none of whose double-quoted literals satisfies the classifier
NoQualifyingLiteral(v) ==
    StartsWithEq(v) /\ \A s \in Range(findall(v)) : ~is_chinese(Str(s))

\* the iteration of the formula loop is at such a cell
AtUnqualifiedFormula ==
    /\ pc \in {"formula_loop", "formula_done"}
    /\ fi <= Len(formula_cells)
    /\ NoQualifyingLiteral(workbook[formula_cells[fi]].v)

C29_IterationStep ==
    (AtUnqualifiedFormula /\ ~interrupted') =>
        /\ requests' = requests
        /\ workbook' = workbook
        /\ cache' = cache
        /\ (pc = "formula_loop") =>
              (pc' = "formula_done" /\ cells_processed' = cells_processed /\ pbar' = pbar)
        /\ (pc = "formula_done") =>
              /\ cells_processed' = cells_processed + 1
              /\ pbar' = pbar + 1
              /\ fi' = fi + 1

C29_CountState ==
    /\ Loaded =>
          \A c \in Range(formula_cells) :
              NoQualifyingLiteral(inputFile[c].v) => workbook[c] = inputFile[c]
    /\ (pc = "done") =>
          /\ cells_processed = Len(all_cells) + Len(formula_cells)
          /\ pbar = Len(all_cells) + Len(formula_cells)
          /\ \A j1 \in DOMAIN formula_cells : \A j2 \in DOMAIN formula_cells :
                (formula_cells[j1] = formula_cells[j2]) => j1 = j2

DocumentLoaded ==
    pc \notin {"backup", "copy", "copy_failed", "load", "aborted", "keyboard_interrupt"}

\* a cell that held something holds the empty string
Cleared(doc, c) == doc[c] = Str(<<>>) /\ inputFile[c] # Str(<<>>)

\* doc has the cells of the input, and those the scan does not select hold
\* their input values
PreservesNonCandidates(doc) ==
    /\ DOMAIN doc = DOMAIN inputFile
    /\ \A c \in DOMAIN doc : ~IsCandidate(inputFile[c]) => doc[c] = inputFile[c]

\* and no cell of doc is cleared
Preserves(doc) ==
    /\ PreservesNonCandidates(doc)
    /\ \A c \in DOMAIN doc : ~Cleared(doc, c)

\* C30: every cell the scan does not select has, in memory and in every
\* persisted document, the value it has in the input; no cell is created,
\* moved or cleared
C30_OtherCellsUntouched ==
    /\ DocumentLoaded => Preserves(workbook)
    /\ (outputFile.state = "complete") => Preserves(outputFile.cells)

\* ------------------------------------------------------------------------
\* --clear-cache: main() of the package (cli.py) and main() of
\* ExcelTranslate.py, up to the first cache lookup of the run
\* ------------------------------------------------------------------------
\* a record of one start of the program: the cache file found, the cache in
\* memory (loaded by ExcelTranslator.__init__; not yet loaded in the script,
\* whose cache is an attribute batch_translate_texts_async creates on its
\* first call)
StartOf(site, clear, file) ==
    [fn |-> "main",
     arg |-> [site |-> site, clear_cache |-> clear, file |-> file],
     stage |-> "start",
     loaded |-> (site = "cli"),
     cache |-> IF site = "cli" THEN load_cache(file) ELSE EmptyMap,
     cacheFile |-> file,
     ret |-> <<>>]

InitClearCache ==
    /\ Idle
    /\ call \in {StartOf(s, c, f) : s \in {"cli", "ExcelTranslate"},
                                     c \in BOOLEAN, f \in LegacyCaches}

\* "Clear cache if requested": cli.py sets translator.cache = {} and calls
\* save_cache({}, translator.cache_file); the script sets
\* batch_translate_texts.cache = {} (an attribute nothing reads) and calls
\* save_translation_cache({}).  Both saves log and swallow a failed write.
ClearCacheIfRequested ==
    /\ call.fn = "main"
    /\ call.stage = "start"
    /\ IF call.arg.clear_cache
       THEN \E ok \in BOOLEAN :
               call' = [call EXCEPT
                           !.stage = "ready",
                           !.cache = IF call.arg.site = "cli" THEN EmptyMap ELSE @,
                           !.cacheFile = save_cache(EmptyMap, @, ok)]
       ELSE call' = [call EXCEPT !.stage = "ready"]
    /\ UNCHANGED run_vars

\* the first "cache_key in cache" of the run; the script loads its cache
\* here (if not hasattr(batch_translate_texts_async, "cache"))
FirstLookup ==
    /\ call.fn = "main"
    /\ call.stage = "ready"
    /\ \E text \in LegacyTexts :
        LET c == IF call.loaded THEN call.cache ELSE load_cache(call.cacheFile)
        IN  call' = [call EXCEPT
                        !.stage = "looked",
                        !.loaded = TRUE,
                        !.cache = c,
                        !.ret = <<[text |-> text, served |-> CacheHit(c, text)]>>]
    /\ UNCHANGED run_vars

SpecClearCache == InitClearCache /\ [][ClearCacheIfRequested \/ FirstLookup]_vars

\* C31: with clear-cache the cache in memory and the cache file are empty
\* before the first lookup and no candidate is served from an earlier run's
\* entry; without clear-cache no entry is dropped
C31_ClearCacheEmptiesBoth ==
    (call.fn = "main" /\ call.stage # "start") =>
        IF call.arg.clear_cache
        THEN /\ call.cacheFile = EmptyMap
             /\ call.loaded => call.cache = EmptyMap
             /\ (call.stage = "looked") => ~call.ret[1].served
        ELSE /\ call.cacheFile = call.arg.file
             /\ call.loaded => call.cache = call.arg.file

\* ------------------------------------------------------------------------
\* C32
\* ------------------------------------------------------------------------
\* C32: every candidate cell of a batch is processed exactly once, none
\* skipped: after the batch the progress count has advanced by the number
\* of cells of the batch, and every cell has been given its translation
C32_EveryCellProcessedOnce ==
    (call.fn = "legacy_batch" /\ call.ret # <<>>) =>
        /\ call.progress = Len(call.arg.texts)
        /\ \A j \in 1..Len(call.arg.texts) : call.ret[1][j] # call.arg.texts[j]

\* ------------------------------------------------------------------------
\* ExcelTranslate.py, batch_translate_texts_async: the loop over
\* texts_to_translate and the cache it updates
\* ------------------------------------------------------------------------
\* what the retry loop of one text can end with: an answer of the model
\* (one of two wordings it may give on different calls, or the text echoed
\* back), or no answer when every attempt failed
LegacyAnswers(text) ==
    {[answered |-> TRUE, value |-> v] :
        v \in {Translit(text), Translit(text) \o Translit(text), text}}
        \cup {[answered |-> FALSE, value |-> text]}

\* the texts appended to texts_to_translate by the filter loop
LegacyUncached(texts, c) ==
    SelectSeq(texts, LAMBDA t : NeedsTranslation(Str(t)) /\ ~CacheHit(c, t))

InitLegacyCache ==
    /\ Idle
    /\ call \in {[fn |-> "legacy_cache", arg |-> [texts |-> b, cache |-> c],
                  todo |-> LegacyUncached(b, c), cache |-> c, ret |-> <<>>] :
                    b \in LegacyBatches, c \in LegacyCaches}

\* one iteration of "for text in texts_to_translate": an answer ("if
\* translated_text:") is stored under the text's key, the fallback is not
LegacyTranslateText ==
    /\ call.fn = "legacy_cache"
    /\ call.todo # <<>>
    /\ \E r \in LegacyAnswers(Head(call.todo)) :
        LET text == Head(call.todo)
        IN  call' = [call EXCEPT
                        !.todo = Tail(@),
                        !.cache = IF r.answered
                                  THEN Put(@, get_cache_key(text), r.value)
                                  ELSE @,
                        !.ret = Append(@, [text |-> text, value |-> r.value])]
    /\ UNCHANGED run_vars

SpecLegacyCache == InitLegacyCache /\ [][LegacyTranslateText]_vars

\* ------------------------------------------------------------------------
\* C33
\* ------------------------------------------------------------------------
C33_CacheStep ==
    (call.fn = "legacy_cache") =>
        \A key \in DOMAIN call.cache :
            key \in DOMAIN call'.cache /\ call'.cache[key] = call.cache[key]

\* C33: the cache only grows: an entry of the in-memory cache is never
\* removed and its translation never changes
C33_CacheOnlyGrows == [][C33_CacheStep]_vars

\* ------------------------------------------------------------------------
\* C34
\* ------------------------------------------------------------------------
\* C34: a result equal to its source text is never stored in the cache
C34_IdentityNeverCached ==
    (call.fn = "legacy_cache") =>
        \A text \in LegacyTexts :
            CacheHit(call.cache, text) => call.cache[get_cache_key(text)] # text

\* ------------------------------------------------------------------------
\* The paths a run reads and writes: translate_file with the file system as
\* a function from path to file
\* ------------------------------------------------------------------------
InputPath == "input.xlsx"
BackupPath == "input.xlsx.backup"
Paths == {InputPath, BackupPath, "output.xlsx"}

\* a copy that does not look at whether source and destination are one file
copy2_unchecked(fs, src, dst, ok) ==
    [raised |-> ~ok,
     fs |-> [fs EXCEPT ![dst] = IF ok /\ src # dst THEN fs[src] ELSE Partial]]

\* shutil.copy2(src, dst): SameFileError before anything is opened when both
\* name one file; otherwise the destination is written, completely or not
copy2(fs, src, dst, ok) ==
    IF src = dst THEN [raised |-> TRUE, fs |-> fs]
    ELSE [raised |-> ~ok, fs |-> [fs EXCEPT ![dst] = IF ok THEN fs[src] ELSE Partial]]

\* the documents of one cell
OneCellDocuments == {<<val>> : val \in CellValues}

\* every candidate cell of the document translated
TranslatedDocument(doc) ==
    [c \in DOMAIN doc |-> IF IsCandidate(doc[c]) THEN Str(Translit(doc[c].v)) ELSE doc[c]]

InitPaths ==
    /\ Idle
    /\ call \in {[fn |-> "translate_file",
                  arg |-> [doc |-> d, output_file |-> o, create_backup_file |-> b],
                  fs |-> [p \in Paths |-> IF p = InputPath THEN Complete(d) ELSE Missing],
                  wb |-> <<>>,
                  stage |-> "backup",
                  ret |-> <<>>] :
                    d \in OneCellDocuments, o \in {InputPath, "output.xlsx"}, b \in BOOLEAN}

\* create_backup(input_file): shutil.copy2(file_path, backup_path); a
\* failure is logged and the run proceeds
PathsBackup ==
    /\ call.fn = "translate_file"
    /\ call.stage = "backup"
    /\ IF call.arg.create_backup_file
       THEN \E ok \in BOOLEAN :
               call' = [call EXCEPT !.fs = copy2(@, InputPath, BackupPath, ok).fs,
                                    !.stage = "copy"]
       ELSE call' = [call EXCEPT !.stage = "copy"]
    /\ UNCHANGED run_vars

\* shutil.copy2(input_file, output_file); an exception ends the run
PathsCopy ==
    /\ call.fn = "translate_file"
    /\ call.stage = "copy"
    /\ \E ok \in BOOLEAN :
        LET r == copy2(call.fs, InputPath, call.arg.output_file, ok)
        IN  call' = [call EXCEPT !.fs = r.fs,
                                 !.stage = IF r.raised THEN "returned" ELSE "load",
                                 !.ret = IF r.raised THEN <<"copy_failed">> ELSE @]
    /\ UNCHANGED run_vars

\* openpyxl.load_workbook(output_file); an exception ends the run
PathsLoad ==
    /\ call.fn = "translate_file"
    /\ call.stage = "load"
    /\ \/ call' = [call EXCEPT !.wb = call.fs[call.arg.output_file].cells,
                               !.stage = "run"]
       \/ call' = [call EXCEPT !.stage = "returned", !.ret = <<"load_failed">>]
    /\ UNCHANGED run_vars

\* the cells are written in memory
PathsTranslate ==
    /\ call.fn = "translate_file"
    /\ call.stage = "run"
    /\ call.wb # TranslatedDocument(call.wb)
    /\ call' = [call EXCEPT !.wb = TranslatedDocument(@)]
    /\ UNCHANGED run_vars

\* workbook.save(output_file) of a checkpoint, of the handler or at the end
\* of the run: the file is written completely, or not
PathsSave ==
    /\ call.fn = "translate_file"
    /\ call.stage = "run"
    /\ \E ok \in BOOLEAN : \E last \in BOOLEAN :
        call' = [call EXCEPT
                    !.fs = [@ EXCEPT ![call.arg.output_file] =
                               IF ok THEN Complete(call.wb) ELSE Partial],
                    !.stage = IF last THEN "returned" ELSE "run",
                    !.ret = IF last THEN <<IF ok THEN "saved" ELSE "save_failed">> ELSE @]
    /\ UNCHANGED run_vars

SpecPaths ==
    InitPaths /\ [][PathsBackup \/ PathsCopy \/ PathsLoad \/ PathsTranslate \/ PathsSave]_vars

\* ------------------------------------------------------------------------
\* C35
\* ------------------------------------------------------------------------
\* C35: the input file is never written by a run, also when the output path
\* names the input file
C35_InputNeverWritten ==
    (call.fn = "translate_file") => call.fs[InputPath] = Complete(call.arg.doc)

\* a run given the input path as its output path has ended at the copy
C35_Witness ==
    /\ call.fn = "translate_file"
    /\ call.arg.output_file = InputPath
    /\ call.stage = "returned"

\* ------------------------------------------------------------------------
\* C36
\* ------------------------------------------------------------------------
\* translate_file has returned to main(), which prints "Translation
\* completed successfully!"
ReturnedToMain == pc \in {"copy_failed", "aborted", "done"}

\* C36: the command-line run ends with the completion message and status
\* zero only if the translated document was finally saved to the output
\* path
C36_SuccessOnlyIfSaved ==
    (ReturnedToMain /\ exit_status = 0) =>
        /\ pc = "done"
        /\ lastSave = "ok"
        /\ outputFile = Complete(workbook)

\* ------------------------------------------------------------------------
\* C37
\* ------------------------------------------------------------------------
\* the distinct source texts of the document: the values of the plain-text
\* candidate cells and the qualifying literals of the formula cells
CandidateTexts ==
    {inputFile[c].v : c \in {x \in DOMAIN inputFile :
                                IsCandidate(inputFile[x]) /\ ~StartsWithEq(inputFile[x].v)}}
        \cup UNION {Range(qualifying_strings(findall(inputFile[c].v))) :
                        c \in {x \in DOMAIN inputFile :
                                IsCandidate(inputFile[x]) /\ StartsWithEq(inputFile[x].v)}}

RECURSIVE TotalRequests(_)
TotalRequests(texts) ==
    IF texts = {} THEN 0
    ELSE LET t == CHOOSE x \in texts : TRUE
         IN  requests[t] + TotalRequests(texts \ {t})

\* C37: the total number of remote requests of a run is at most the number
\* of candidate texts times (max_retries + 1)
C37_RequestsBounded ==
    TotalRequests(DOMAIN requests) <= Cardinality(CandidateTexts) * (max_retries + 1)

====
